---- MODULE Spec2Model ----
(***************************************************************************)
(* Matrix capsules with EM routing: model/matrix_capsules.py, class        *)
(* ConvCaps.  Three specifications share this module:                      *)
(*   SpecForward  the shape checks of ConvCaps.forward and the patch       *)
(*                gathering of add_patches, statement by statement;        *)
(*   SpecShared   transform_view with shared weights and add_coord;        *)
(*   Spec         repeated forward calls of a fully-shared layer with the  *)
(*                EM routing loop of caps_em_routing (mmstep / e_step).    *)
(* Tensors are functions over 0-based index ranges, as in the source.      *)
(***************************************************************************)
EXTENDS Integers, Sequences, FiniteSets, TLC

\* ------------------------------------------------------------------ bounds
MaxSide == 4
MaxKernel == 3
MaxStride == 3
MaxBatch == 2
MaxChan == 3

VARIABLES
  \* --- SpecForward: one ConvCaps layer and the call in progress
  cfg,      \* construction arguments: B, C, K, P, stride, coor_add, w_shared
  pc,       \* position of the call inside forward / add_patches
  xs,       \* shape of the input grid: b, h, w, c
  x,        \* the tensor add_patches is working on
  idxs,     \* add_patches: the index lists
  oh,       \* add_patches: the returned oh (= ow)
  outcome,  \* how the call ended, and the shape it returned
  \* --- SpecShared and Spec: a fully-shared layer (class-capsule layer)
  self,     \* construction arguments: B, C, P, K, stride, iters, coor_add, w_shared
  weights,  \* self.weights, (1, K*K*B, C, P, P), axis 0 dropped
  at,       \* position of the call inside forward / caps_em_routing
  gx,       \* forward's argument x, (b, h, w, B*(psize+1))
  p_in,     \* forward: (b, h*w*B, psize)
  a_in,     \* forward: (b, h*w*B, 1), axis 2 dropped
  v,        \* forward: the votes, (b, h*w*B, C, psize)
  \* --- Spec: the parameters and the routing call in progress
  beta_u,   \* self.beta_u, (C)
  beta_a,   \* self.beta_a, (C)
  _lambda,  \* self._lambda, the pair (low, high)
  r,        \* forward's argument r
  R,        \* caps_em_routing: routing coefficients, (b, B, C), exact fractions
  iter_,    \* caps_em_routing: the loop variable
  a_out,    \* caps_em_routing: (b, C)
  mu,       \* caps_em_routing: (b, C, psize)
  sigma_sq, \* caps_em_routing: (b, C, psize)
  out,      \* forward: the value returned
  steps,    \* history: the M- and E-steps of this call, each with the R it used or made
  lams,     \* history: the inverse temperature handed to each M-step of this call
  args,     \* history: what the last step divided by and took sqrt and log of
  built,    \* history: the parameters as __init__ left them
  prev      \* history: input and output of the last forward call that returned

fvars == <<cfg, pc, xs, x, idxs, oh, outcome>>
svars == <<self, weights, at, gx, p_in, a_in, v>>
rvars == <<beta_u, beta_a, _lambda, r, R, iter_, a_out, mu, sigma_sq, out, steps, lams,
           args, built, prev>>
vars == <<fvars, svars, rvars>>

\* ----------------------------------------------------------- tensor helpers
\* range(start, stop, step) of Python, as a 0-based function
PyRange(start, stop, step) ==
  LET n == IF stop <= start THEN 0 ELSE (stop - start + step - 1) \div step
  IN  [i \in 0..(n - 1) |-> start + i * step]

Size(f) == Cardinality(DOMAIN f)

\* the input grid: every location (n, row, col) holds its own channel vector
Grid(b, h, w) ==
  [n \in 0..(b - 1) |-> [row \in 0..(h - 1) |-> [col \in 0..(w - 1) |-> <<n, row, col>>]]]

psizeOf(P) == P * P

\* ------------------------------------------------------------- add_patches
\* oh = ow = int((h - K + 1) / stride)
PatchOh(h, K, stride) == (h - K + 1) \div stride

\* idxs = [[h_idx + k_idx for h_idx in range(0, h-K+1, stride)] for k_idx in range(0, K)]
PatchIdxs(h, K, stride) ==
  LET hs == PyRange(0, h - K + 1, stride)
      ks == PyRange(0, K, 1)
  IN  [k \in DOMAIN ks |-> [i \in DOMAIN hs |-> hs[i] + ks[k]]]

\* x[:, idxs, :, :] : the index tensor's two axes replace axis 1
GatherRows(t, ix) ==
  [n \in DOMAIN t |-> [k \in DOMAIN ix |-> [i \in DOMAIN ix[k] |-> t[n][ix[k][i]]]]]

\* x[:, :, :, idxs, :] : the index tensor's two axes replace axis 3
GatherCols(t, ix) ==
  [n \in DOMAIN t |-> [a \in DOMAIN t[n] |-> [i \in DOMAIN t[n][a] |->
     [k \in DOMAIN ix |-> [j \in DOMAIN ix[k] |-> t[n][a][i][ix[k][j]]]]]]]

\* x.permute(0, 1, 3, 2, 4, 5) : axes 2 and 3 change places
Permute013245(t) ==
  [n \in DOMAIN t |-> [a \in DOMAIN t[n] |->
     [c \in DOMAIN t[n][a][0] |-> [i \in DOMAIN t[n][a] |-> t[n][a][i][c]]]]]

\* add_patches, lines 235-236: assert h == w; assert c == B*(psize+1)
PatchesAssert(h, w, c, g) == h = w /\ c = g.B * (psizeOf(g.P) + 1)

\* forward, lines 305-307: assert c == B*(psize+1); assert 1 == K; assert 1 == stride
SharedAssertNoStride(c, g) == c = g.B * (psizeOf(g.P) + 1) /\ 1 = g.K

SharedAssert(c, g) == c = g.B * (psizeOf(g.P) + 1) /\ 1 = g.K /\ 1 = g.stride

\* add_coord, line 275: assert h == w
CoordAssert(h, w) == h = w

\* the first five sizes of a rank-5 tensor with non-empty axes
Shape5(t) == <<Size(t), Size(t[0]), Size(t[0][0]), Size(t[0][0][0]), Size(t[0][0][0][0])>>

\* the variables of a specification that does not use them
RoutingOff ==
  /\ beta_u = 0 /\ beta_a = 0 /\ _lambda = 0 /\ r = 0 /\ R = 0 /\ iter_ = 0
  /\ a_out = 0 /\ mu = 0 /\ sigma_sq = 0 /\ out = 0 /\ steps = 0 /\ lams = 0
  /\ args = 0 /\ built = 0 /\ prev = 0

\* ------------------------------------------------------------ SpecForward
Configs ==
  [B : {1}, C : {1}, P : {1}, K : 1..MaxKernel, stride : 1..MaxStride,
   coor_add : BOOLEAN, w_shared : BOOLEAN]

InitForward ==
  /\ cfg \in Configs
  /\ pc = "idle"
  /\ xs = [b |-> 0, h |-> 0, w |-> 0, c |-> 0]
  /\ x = <<>>
  /\ idxs = <<>>
  /\ oh = 0
  /\ outcome = [kind |-> "none", shape |-> <<>>]
  /\ self = 0 /\ weights = 0 /\ at = "off" /\ gx = 0 /\ p_in = 0 /\ a_in = 0 /\ v = 0
  /\ RoutingOff

\* forward(x, r): b, h, w, c = x.shape, then the branch on w_shared
Call ==
  /\ pc = "idle"
  /\ \E b \in 1..MaxBatch, h \in 1..MaxSide, w \in 1..MaxSide, c \in 1..MaxChan :
       /\ cfg.w_shared \/ (cfg.K <= h /\ cfg.K <= w)
       /\ xs' = [b |-> b, h |-> h, w |-> w, c |-> c]
       /\ x' = Grid(b, h, w)
  /\ pc' = IF cfg.w_shared THEN "shared" ELSE "add_patches"
  /\ idxs' = <<>>
  /\ oh' = 0
  /\ outcome' = [kind |-> "none", shape |-> <<>>]
  /\ UNCHANGED cfg
  /\ UNCHANGED <<svars, rvars>>

\* add_patches, lines 234-240: the two assertions, oh and idxs
PatchesCheck ==
  /\ pc = "add_patches"
  /\ IF PatchesAssert(xs.h, xs.w, xs.c, cfg)
       THEN /\ oh' = PatchOh(xs.h, cfg.K, cfg.stride)
            /\ idxs' = PatchIdxs(xs.h, cfg.K, cfg.stride)
            /\ pc' = "gather_rows"
            /\ UNCHANGED outcome
       ELSE /\ outcome' = [kind |-> "AssertionError", shape |-> <<>>]
            /\ pc' = "done"
            /\ UNCHANGED <<oh, idxs>>
  /\ UNCHANGED <<cfg, xs, x>>
  /\ UNCHANGED <<svars, rvars>>

\* add_patches, line 241
PatchesRows ==
  /\ pc = "gather_rows"
  /\ x' = GatherRows(x, idxs)
  /\ pc' = "gather_cols"
  /\ UNCHANGED <<cfg, xs, idxs, oh, outcome>>
  /\ UNCHANGED <<svars, rvars>>

\* add_patches, line 242
PatchesCols ==
  /\ pc = "gather_cols"
  /\ x' = GatherCols(x, idxs)
  /\ pc' = "permute"
  /\ UNCHANGED <<cfg, xs, idxs, oh, outcome>>
  /\ UNCHANGED <<svars, rvars>>

\* add_patches, lines 243-244: permute and return x, oh, ow
PatchesReturn ==
  /\ pc = "permute"
  /\ x' = Permute013245(x)
  /\ pc' = "patched"
  /\ UNCHANGED <<cfg, xs, idxs, oh, outcome>>
  /\ UNCHANGED <<svars, rvars>>

\* forward, lines 293-303: the views need b*oh*ow*K*K*B*psize elements
LocalRest ==
  /\ pc = "patched"
  /\ LET s == Shape5(x)
         numel == s[1] * s[2] * s[3] * s[4] * s[5]
     IN  IF numel = xs.b * oh * oh * cfg.K * cfg.K
           THEN outcome' = [kind |-> "returned",
                            shape |-> <<xs.b, oh, oh, cfg.C * (psizeOf(cfg.P) + 1)>>]
           ELSE outcome' = [kind |-> "RuntimeError", shape |-> <<>>]
  /\ pc' = "done"
  /\ UNCHANGED <<cfg, xs, x, idxs, oh>>
  /\ UNCHANGED <<svars, rvars>>

\* forward, lines 305-307: the three assertions of the shared branch
SharedCheck ==
  /\ pc = "shared"
  /\ IF SharedAssert(xs.c, cfg)
       THEN /\ pc' = IF cfg.coor_add THEN "add_coord" ELSE "shared_route"
            /\ UNCHANGED outcome
       ELSE /\ outcome' = [kind |-> "AssertionError", shape |-> <<>>]
            /\ pc' = "done"
  /\ UNCHANGED <<cfg, xs, x, idxs, oh>>
  /\ UNCHANGED <<svars, rvars>>

\* add_coord, line 275: assert h == w
CoordCheck ==
  /\ pc = "add_coord"
  /\ IF CoordAssert(xs.h, xs.w)
       THEN pc' = "shared_route" /\ UNCHANGED outcome
       ELSE pc' = "done" /\ outcome' = [kind |-> "AssertionError", shape |-> <<>>]
  /\ UNCHANGED <<cfg, xs, x, idxs, oh>>
  /\ UNCHANGED <<svars, rvars>>

\* forward, lines 321-323: routing over the flattened grid, out is a_out
SharedRest ==
  /\ pc = "shared_route"
  /\ outcome' = [kind |-> "returned", shape |-> <<xs.b, cfg.C>>]
  /\ pc' = "done"
  /\ UNCHANGED <<cfg, xs, x, idxs, oh>>
  /\ UNCHANGED <<svars, rvars>>

\* forward has returned or raised: its locals are gone, the layer is ready
\* for the next call
Finish ==
  /\ pc = "done"
  /\ pc' = "idle"
  /\ xs' = [b |-> 0, h |-> 0, w |-> 0, c |-> 0]
  /\ x' = <<>>
  /\ idxs' = <<>>
  /\ oh' = 0
  /\ outcome' = [kind |-> "none", shape |-> <<>>]
  /\ UNCHANGED cfg
  /\ UNCHANGED <<svars, rvars>>

NextForward ==
  \/ Call
  \/ PatchesCheck
  \/ PatchesRows
  \/ PatchesCols
  \/ PatchesReturn
  \/ LocalRest
  \/ SharedCheck
  \/ CoordCheck
  \/ SharedRest
  \/ Finish

SpecForward == InitForward /\ [][NextForward]_vars

\* ------------------------------------------------- claims on SpecForward
\* floor((H - K) / stride) + 1, the output side of a valid convolution
ConvSide(h, K, stride) == (h - K) \div stride + 1

\* C1: the tensor add_patches returns has shape (b, H', W', K, K, c) and its
\* entry [n, i, j, k1, k2, :] is the input at [n, i*stride+k1, j*stride+k2, :].
C1_PatchLayout ==
  pc = "patched" =>
    LET hp == ConvSide(xs.h, cfg.K, cfg.stride)
    IN  /\ Shape5(x) = <<xs.b, hp, hp, cfg.K, cfg.K>>
        /\ \A n \in 0..(xs.b - 1), i \in 0..(hp - 1), j \in 0..(hp - 1),
              k1 \in 0..(cfg.K - 1), k2 \in 0..(cfg.K - 1) :
              x[n][i][j][k1][k2] = <<n, i * cfg.stride + k1, j * cfg.stride + k2>>

\* What add_patches returns instead: shape (b, K, K, H', W', c), the kernel
\* offsets on axes 1 and 2 and the output location on axes 3 and 4.
PatchLayoutOfCode ==
  pc = "patched" =>
    LET hp == ConvSide(xs.h, cfg.K, cfg.stride)
    IN  /\ Shape5(x) = <<xs.b, cfg.K, cfg.K, hp, hp>>
        /\ \A n \in 0..(xs.b - 1), i \in 0..(hp - 1), j \in 0..(hp - 1),
              k1 \in 0..(cfg.K - 1), k2 \in 0..(cfg.K - 1) :
              x[n][k1][k2][i][j] = <<n, i * cfg.stride + k1, j * cfg.stride + k2>>

\* C2: the oh (= ow) add_patches returns is floor((H-K)/stride)+1, the number
\* of window start positions gathered along each axis.
C2_OutputSize ==
  pc = "patched" =>
    /\ oh = ConvSide(xs.h, cfg.K, cfg.stride)
    /\ oh = Size(idxs[0])

\* the inputs the claim C3 names as invalid
BadInput ==
  \/ xs.h # xs.w
  \/ xs.c # cfg.B * (psizeOf(cfg.P) + 1)
  \/ cfg.w_shared /\ (cfg.K # 1 \/ cfg.stride # 1)

\* C3 as stated: every call on an invalid input ends in an assertion failure
\* and returns nothing, in both modes, with and without coordinate addition.
C3_FailFast ==
  (pc = "done" /\ BadInput) => outcome.kind = "AssertionError"

\* the invalid inputs forward does reject: a non-square grid counts only in
\* locally-connected mode or when coordinates are added
RejectedInput ==
  \/ xs.c # cfg.B * (psizeOf(cfg.P) + 1)
  \/ cfg.w_shared /\ (cfg.K # 1 \/ cfg.stride # 1)
  \/ xs.h # xs.w /\ (~cfg.w_shared \/ cfg.coor_add)

\* C3 amended: a call ends in an assertion failure and returns nothing exactly
\* when the channel count is wrong, or the layer is shared with K # 1 or
\* stride # 1, or the grid is not square and the layer is locally connected
\* or adds coordinates; a shared layer without coordinate addition accepts a
\* non-square grid and returns its output.
C3_FailFastAmended ==
  pc = "done" => (RejectedInput <=> outcome.kind = "AssertionError")

C3_Witness ==
  /\ pc = "done"
  /\ cfg.w_shared /\ cfg.coor_add /\ cfg.K = 1 /\ cfg.stride = 1
  /\ xs.h # xs.w /\ xs.c = cfg.B * (psizeOf(cfg.P) + 1)
  /\ outcome.kind = "AssertionError"

\* ------------------------------------------------------------- rationals
\* exact fractions <<numerator, denominator>> in lowest terms, denominator > 0
RECURSIVE Gcd(_, _)
Gcd(a, b) == IF b = 0 THEN a ELSE Gcd(b, a % b)

Abs(a) == IF a < 0 THEN -a ELSE a

Rat(n, d) == LET g == Gcd(Abs(n), d) IN <<n \div g, d \div g>>

RatAdd(p, q) == Rat(p[1] * q[2] + q[1] * p[2], p[2] * q[2])

\* ---------------------------------------------- forward, the shared branch
\* x[:, :, :, :B*psize].view(b, h*w*B, psize): row-major regrouping of the
\* pose channels of every location
ViewPoses(t, h, w, B, psize) ==
  [bi \in DOMAIN t |-> [n \in 0..(h * w * B - 1) |-> [e \in 0..(psize - 1) |->
     LET f == n * psize + e
     IN  t[bi][f \div (w * B * psize)][(f \div (B * psize)) % w][f % (B * psize)]]]]

\* x[:, :, :, B*psize:].view(b, h*w*B, 1)
ViewActs(t, h, w, B, psize) ==
  [bi \in DOMAIN t |-> [n \in 0..(h * w * B - 1) |->
     t[bi][n \div (w * B)][(n \div B) % w][B * psize + (n % B)]]]

\* w.repeat(1, hw, 1, 1, 1): hw copies of the whole weight axis, one after another
RepeatInterleaved(wts, hw) ==
  [n \in 0..(hw * Size(wts) - 1) |-> wts[n \div hw]]

Repeat(wts, hw) ==
  [n \in 0..(hw * Size(wts) - 1) |-> wts[n % Size(wts)]]

\* torch.matmul of two P x P matrices stored row-major in length-P*P vectors
RECURSIVE DotFrom(_, _, _, _, _, _)
DotFrom(a, b, i, j, k, P) ==
  IF k = P THEN 0 ELSE a[i * P + k] * b[k][j] + DotFrom(a, b, i, j, k + 1, P)

MatMul(a, b, P) == [e \in 0..(P * P - 1) |-> DotFrom(a, b, e \div P, e % P, 0, P)]

\* transform_view(x, w, C, P, w_shared), lines 255-267
TransformView(xp, wts, C, P, w_shared) ==
  LET Bp == Size(xp[0])
      hw == Bp \div Size(wts)
      w2 == IF w_shared THEN Repeat(wts, hw) ELSE wts
  IN  [bi \in DOMAIN xp |-> [n \in 0..(Bp - 1) |-> [c \in 0..(C - 1) |->
         MatMul(xp[bi][n], w2[n][c], P)]]]

\* add_coord(v, b, h, w, B, C, psize), lines 276-284, after its assertion
AddCoordSwapped(t, h, w, B, psize) ==
  [bi \in DOMAIN t |-> [n \in DOMAIN t[bi] |-> [c \in DOMAIN t[bi][n] |->
     [e \in 0..(psize - 1) |->
        LET row == n \div (w * B)
            col == (n \div B) % w
            coor == [i \in 0..(h - 1) |-> Rat(i, h)]
            coor_h == IF e = 1 THEN coor[row] ELSE Rat(0, 1)
            coor_w == IF e = 0 THEN coor[col] ELSE Rat(0, 1)
        IN  RatAdd(RatAdd(Rat(t[bi][n][c][e], 1), coor_h), coor_w)]]]]

AddCoord(t, h, w, B, psize) ==
  [bi \in DOMAIN t |-> [n \in DOMAIN t[bi] |-> [c \in DOMAIN t[bi][n] |->
     [e \in 0..(psize - 1) |->
        LET row == n \div (w * B)
            col == (n \div B) % w
            coor == [i \in 0..(h - 1) |-> Rat(i, h)]
            coor_h == IF e = 0 THEN coor[row] ELSE Rat(0, 1)
            coor_w == IF e = 1 THEN coor[col] ELSE Rat(0, 1)
        IN  RatAdd(RatAdd(Rat(t[bi][n][c][e], 1), coor_h), coor_w)]]]]

\* ------------------------------------------------------------- SpecShared
MaxGrid == 2
MaxTypes == 2
MaxOut == 2
MaxSeed == 2
PoseMod == 7

\* input grids and weights are drawn from families indexed by a seed; seed 0
\* is the all-zero tensor
Pattern(seed, f) == (seed * (f + 1)) % PoseMod

GridOf(seed, b, h, w, c) ==
  [bi \in 0..(b - 1) |-> [row \in 0..(h - 1) |-> [col \in 0..(w - 1) |->
     [ch \in 0..(c - 1) |-> Pattern(seed, ((bi * h + row) * w + col) * c + ch)]]]]

WeightsOf(seed, n, C, P) ==
  [k \in 0..(n - 1) |-> [c \in 0..(C - 1) |-> [i \in 0..(P - 1) |-> [j \in 0..(P - 1) |->
     Pattern(seed, ((k * C + c) * P + i) * P + j)]]]]

Hgt(t) == Size(t[0])
Wid(t) == Size(t[0][0])

InitShared ==
  /\ self \in [B : 1..MaxTypes, C : 1..MaxOut, P : {2}, K : {1}, stride : {1},
               iters : {1}, coor_add : BOOLEAN, w_shared : {TRUE}]
  /\ \E seed \in 0..MaxSeed :
       weights = WeightsOf(seed, self.K * self.K * self.B, self.C, self.P)
  /\ at = "idle"
  /\ gx = <<>>
  /\ p_in = <<>>
  /\ a_in = <<>>
  /\ v = <<>>
  /\ cfg = 0 /\ pc = "off" /\ xs = 0 /\ x = 0 /\ idxs = 0 /\ oh = 0 /\ outcome = 0
  /\ RoutingOff

\* forward, lines 305-311: the assertions hold for the grids drawn here
SForward ==
  /\ at = "idle"
  /\ \E seed \in 0..MaxSeed, b \in 1..MaxBatch, h \in 1..MaxGrid, w \in 1..MaxGrid :
       LET c == self.B * (psizeOf(self.P) + 1)
           g == GridOf(seed, b, h, w, c)
       IN  /\ SharedAssert(c, self)
           /\ gx' = g
           /\ p_in' = ViewPoses(g, h, w, self.B, psizeOf(self.P))
           /\ a_in' = ViewActs(g, h, w, self.B, psizeOf(self.P))
  /\ v' = <<>>
  /\ at' = "transform_view"
  /\ UNCHANGED <<self, weights, fvars, rvars>>

\* forward, line 314
STransform ==
  /\ at = "transform_view"
  /\ v' = TransformView(p_in, weights, self.C, self.P, self.w_shared)
  /\ at' = IF self.coor_add THEN "add_coord" ELSE "em_routing"
  /\ UNCHANGED <<self, weights, gx, p_in, a_in, fvars, rvars>>

\* forward, lines 317-318
SCoord ==
  /\ at = "add_coord"
  /\ IF CoordAssert(Hgt(gx), Wid(gx))
       THEN /\ v' = AddCoord(v, Hgt(gx), Wid(gx), self.B, psizeOf(self.P))
            /\ at' = "em_routing"
       ELSE /\ at' = "AssertionError"
            /\ UNCHANGED v
  /\ UNCHANGED <<self, weights, gx, p_in, a_in, fvars, rvars>>

\* the call is over (the routing of these votes is the subject of Spec); its
\* locals are gone
SFinish ==
  /\ at \in {"em_routing", "AssertionError"}
  /\ at' = "idle"
  /\ gx' = <<>>
  /\ p_in' = <<>>
  /\ a_in' = <<>>
  /\ v' = <<>>
  /\ UNCHANGED <<self, weights, fvars, rvars>>

NextShared ==
  \/ SForward
  \/ STransform
  \/ SCoord
  \/ SFinish

SpecShared == InitShared /\ [][NextShared]_vars

\* ---------------------------------------------------- claims on SpecShared
\* the pose matrix of the capsule of type t at (row, col), read off the grid
PoseAt(bi, row, col, t) ==
  [e \in 0..(psizeOf(self.P) - 1) |-> gx[bi][row][col][t * psizeOf(self.P) + e]]

\* C9: in fully-shared mode the capsule of type t at (row, col) has flattened
\* index n = (row*W + col)*B + t and its vote for output type c is its pose
\* times weights[t, c]: one weight per input type, whatever the position.
C9_SharedWeights ==
  at \in {"add_coord", "em_routing"} /\ ~self.coor_add =>
    \A bi \in DOMAIN gx, row \in 0..(Hgt(gx) - 1), col \in 0..(Wid(gx) - 1),
       t \in 0..(self.B - 1), c \in 0..(self.C - 1) :
       v[bi][(row * Wid(gx) + col) * self.B + t][c]
         = MatMul(PoseAt(bi, row, col, t), weights[t][c], self.P)

C9_Witness ==
  /\ at = "em_routing" /\ ~self.coor_add
  /\ self.B = 2 /\ self.C = 2 /\ Hgt(gx) = 2 /\ Wid(gx) = 1
  /\ v[0][3][1] = MatMul(PoseAt(0, 1, 0, 1), weights[1][1], self.P)
  /\ v[0][3][1] # MatMul(PoseAt(0, 1, 0, 1), weights[0][1], self.P)
  /\ v[0][3][1] # MatMul(PoseAt(0, 0, 0, 1), weights[1][1], self.P)

\* the votes before coordinate addition
VotesIn == TransformView(p_in, weights, self.C, self.P, self.w_shared)

\* C4: add_coord adds row/H to pose entry 0 and col/H to pose entry 1 of the
\* vote of every capsule at (row, col), for every batch element, input type
\* and output type, and leaves the other entries as they were.
C4_CoordAdded ==
  at = "em_routing" /\ self.coor_add =>
    LET h == Hgt(gx)
        votes == VotesIn
    IN
    \A bi \in DOMAIN gx, row \in 0..(h - 1), col \in 0..(h - 1),
       t \in 0..(self.B - 1), c \in 0..(self.C - 1), e \in 0..(psizeOf(self.P) - 1) :
       LET n == (row * h + col) * self.B + t
           before == votes[bi][n][c][e]
       IN  v[bi][n][c][e] =
             CASE e = 0 -> Rat(before * h + row, h)
               [] e = 1 -> Rat(before * h + col, h)
               [] OTHER -> Rat(before, 1)

\* all-zero votes on a 2 x 2 grid: the capsules at (1, 0) carry (1/2, 0, 0, 0)
C4_Witness ==
  /\ at = "em_routing" /\ self.coor_add
  /\ Hgt(gx) = 2 /\ self.B = 2
  /\ LET votes == VotesIn
     IN  \A bi \in DOMAIN gx : \A n \in DOMAIN votes[bi] :
           \A c \in 0..(self.C - 1), e \in 0..(psizeOf(self.P) - 1) : votes[bi][n][c][e] = 0
  /\ v[0][5][0] = [e \in 0..3 |-> IF e = 0 THEN <<1, 2>> ELSE <<0, 1>>]
  /\ v[0][3][0] = [e \in 0..3 |-> IF e = 1 THEN <<1, 2>> ELSE <<0, 1>>]

\* ------------------------------------------------- arithmetic on the grid
\* The routing arithmetic is float32 in the source.  Here every real is a
\* whole number of grid units, 1.0 = Scale units, and every operation rounds
\* down to the grid, so a result smaller than one unit reads 0 the way a
\* float32 result smaller than the least subnormal does.  eps, the positive
\* constant the source adds as a guard, is one unit.  The two non-finite
\* values a float can take here are NegInf (log of 0) and NaN.
Scale == 100
eps == 1

NaN == -(2 ^ 30)
NegInf == -(2 ^ 29)
IsNaN(a) == a = NaN

Mul(a, b) == (a * b) \div Scale
Div(a, b) == (a * Scale) \div b

\* math.sqrt / torch.sqrt: the largest grid value whose square is at most a
RECURSIVE ISqrt(_)
ISqrt(n) ==
  IF n < 2 THEN n
  ELSE LET s == 2 * ISqrt(n \div 4)
       IN  IF (s + 1) * (s + 1) <= n THEN s + 1 ELSE s

Sqrt(a) == ISqrt(a * Scale)

\* ln 2, math.pi and math.sqrt(2) on the grid
Ln2 == (6931 * Scale) \div 10000
Pi == (355 * Scale) \div 113
sqrt_2 == Sqrt(2 * Scale)

\* torch.log: halve or double the argument into [1, 2), then the series
\* ln m = 2 (y + y^3/3 + y^5/5), y = (m - 1)/(m + 1); log(0) = -inf
RECURSIVE LogFrom(_, _)
LogFrom(m, k) ==
  IF m >= 2 * Scale THEN LogFrom(m \div 2, k + 1)
  ELSE IF m < Scale THEN LogFrom(m * 2, k - 1)
  ELSE LET y == Div(m - Scale, m + Scale)
           y3 == Mul(Mul(y, y), y)
           y5 == Mul(Mul(y3, y), y)
       IN  k * Ln2 + 2 * (y + y3 \div 3 + y5 \div 5)

Log(a) == IF a = 0 THEN NegInf ELSE LogFrom(a, 0)

\* exp(-n) for n >= 0: n = k ln 2 + f, exp(-f) by its series, then k halvings
ExpNeg(n) ==
  LET k == n \div Ln2
      f == n - k * Ln2
      f2 == Mul(f, f)
      f3 == Mul(f2, f)
      ef == Scale - f + f2 \div 2 - f3 \div 6
  IN  IF k > 30 THEN 0 ELSE ef \div (2 ^ k)

\* nn.Sigmoid in float32: 1 / (1 + exp(-z)).  Below z = -104 the result is
\* exactly 0 (exp(104) is beyond the float32 range and exp(-104) is below its
\* smallest subnormal); above it the result is a positive number, which stays
\* positive on the grid.
SigmoidZero == 104 * Scale

Sigmoid(z) ==
  IF z < -SigmoidZero THEN 0
  ELSE IF z >= 0 THEN Div(Scale, Scale + ExpNeg(z))
  ELSE LET e == ExpNeg(-z)
           s == Div(e, Scale + e)
       IN  IF s < eps THEN eps ELSE s

\* ------------------------------------------------------- mmstep and e_step
RECURSIVE SumTo(_, _)
SumTo(f, n) == IF n = 0 THEN 0 ELSE f[n - 1] + SumTo(f, n - 1)

Sq(d) == Mul(d, d)

\* mmstep, lines 117-136, for one sample: a (B), Rr (B, C), Vv (B, C, psize).
\* R_sum and sigma are returned too, for the record of what was divided by
\* and what log was taken of.  A NaN in R makes every result NaN.
MSample(a, Rr, Vv, lam, b_a, b_u) ==
  LET Bn == Size(Vv)
      C == Size(Vv[0])
      psize == Size(Vv[0][0])
      cs == 0..(C - 1)
      hs == 0..(psize - 1)
      is == 0..(Bn - 1)
      nan == \E i \in is, c \in cs : Rr[i][c][2] = 0
      R_a == [i \in is |-> [c \in cs |-> (Rr[i][c][1] * a[i]) \div Rr[i][c][2]]]
      R_sum == [c \in cs |-> SumTo([i \in is |-> R_a[i][c]], Bn)]
      coeff == [i \in is |-> [c \in cs |-> Div(R_a[i][c], R_sum[c] + eps)]]
      mean == [c \in cs |-> [h \in hs |->
                 SumTo([i \in is |-> Mul(coeff[i][c], Vv[i][c][h])], Bn)]]
      var == [c \in cs |-> [h \in hs |->
                SumTo([i \in is |-> Mul(coeff[i][c], Sq(Vv[i][c][h] - mean[c][h]))], Bn) + eps]]
      sigma == [c \in cs |-> [h \in hs |-> Sqrt(var[c][h])]]
      cost_h == [c \in cs |-> [h \in hs |-> Mul(b_u[c] + Log(sigma[c][h]), R_sum[c])]]
      a_j == [c \in cs |-> Sigmoid(Mul(lam, b_a[c] - SumTo(cost_h[c], psize)))]
  IN  IF nan
        THEN [a_j |-> [c \in cs |-> NaN],
              mu |-> [c \in cs |-> [h \in hs |-> NaN]],
              sigma_sq |-> [c \in cs |-> [h \in hs |-> NaN]],
              R_sum |-> [c \in cs |-> NaN],
              sigma |-> [c \in cs |-> [h \in hs |-> NaN]]]
        ELSE [a_j |-> a_j, mu |-> mean, sigma_sq |-> var, R_sum |-> R_sum, sigma |-> sigma]

mmstep(a_i, RR, V, lam, b_a, b_u) ==
  [a_j |-> [bi \in DOMAIN V |-> MSample(a_i[bi], RR[bi], V[bi], lam, b_a, b_u).a_j],
   mu |-> [bi \in DOMAIN V |-> MSample(a_i[bi], RR[bi], V[bi], lam, b_a, b_u).mu],
   sigma_sq |-> [bi \in DOMAIN V |-> MSample(a_i[bi], RR[bi], V[bi], lam, b_a, b_u).sigma_sq]]

\* what mmstep divides by (R_sum + eps), takes the sqrt of (sigma_sq) and the
\* log of (sigma)
MArgs(a_i, RR, V, lam, b_a, b_u) ==
  LET one(bi) == MSample(a_i[bi], RR[bi], V[bi], lam, b_a, b_u)
      cs == DOMAIN V[0][0]
      hs == DOMAIN V[0][0][0]
  IN  [div |-> {IF IsNaN(one(bi).R_sum[c]) THEN NaN ELSE one(bi).R_sum[c] + eps :
                  bi \in DOMAIN V, c \in cs},
       sqrt |-> {one(bi).sigma_sq[c][h] : bi \in DOMAIN V, c \in cs, h \in hs},
       log |-> {one(bi).sigma[c][h] : bi \in DOMAIN V, c \in cs, h \in hs}]

\* nn.Softmax(dim=2) on one row: exp(x - max) / sum; a row of -inf gives NaN,
\* written 0/0
RECURSIVE MaxTo(_, _)
MaxTo(f, n) ==
  IF n = 1 THEN f[0]
  ELSE LET m == MaxTo(f, n - 1) IN IF f[n - 1] > m THEN f[n - 1] ELSE m

Softmax(xv) ==
  LET C == Size(xv)
      m == MaxTo(xv, C)
      e == [c \in 0..(C - 1) |-> IF xv[c] = NegInf THEN 0 ELSE ExpNeg(m - xv[c])]
      tot == SumTo(e, C)
  IN  IF m = NegInf THEN [c \in 0..(C - 1) |-> <<0, 0>>]
      ELSE [c \in 0..(C - 1) |-> Rat(e[c], tot)]

SoftmaxRows(la) == [i \in DOMAIN la |-> Softmax(la[i])]

\* e_step, lines 193-196, for one sample: m, ssq (C, psize), aj (C), Vv (B, C, psize)
ESample(m, ssq, aj, Vv) ==
  LET Bn == Size(Vv)
      C == Size(Vv[0])
      psize == Size(Vv[0][0])
      cs == 0..(C - 1)
      hs == 0..(psize - 1)
      is == 0..(Bn - 1)
      nan == \E c \in cs : IsNaN(aj[c])
      ln_p_j_h == [i \in is |-> [c \in cs |-> [h \in hs |->
                     (-Div(Sq(Vv[i][c][h] - m[c][h]), Mul(sqrt_2, ssq[c][h])))
                       - (Log(Mul(2 * Pi, ssq[c][h])) \div 2)]]]
      ln_ap == [i \in is |-> [c \in cs |->
                  IF aj[c] = 0 THEN NegInf
                  ELSE SumTo(ln_p_j_h[i][c], psize) + Log(aj[c])]]
  IN  IF nan THEN [i \in is |-> [c \in cs |-> <<0, 0>>]]
      ELSE SoftmaxRows(ln_ap)

e_step(m, ssq, aj, V) ==
  [bi \in DOMAIN V |-> ESample(m[bi], ssq[bi], aj[bi], V[bi])]

\* what e_step divides by (sqrt_2 * sigma_sq) and takes the log of
\* (2 pi sigma_sq, and a_out apart)
EArgs(ssq, aj, V) ==
  LET cs == DOMAIN V[0][0]
      hs == DOMAIN V[0][0][0]
      on(y, k) == IF IsNaN(y) THEN NaN ELSE Mul(k, y)
  IN  [div |-> {on(ssq[bi][c][h], sqrt_2) : bi \in DOMAIN V, c \in cs, h \in hs},
       sqrt |-> {},
       log |-> {on(ssq[bi][c][h], 2 * Pi) : bi \in DOMAIN V, c \in cs, h \in hs},
       log_a |-> {aj[bi][c] : bi \in DOMAIN V, c \in cs}]

\* --------------------------------------------------------- caps_em_routing
\* line 217: R = torch.ones(b, B, C) / C
StaleR(b, B, C) ==
  IF R # <<>> /\ Size(R) = b /\ Size(R[0]) = B /\ Size(R[0][0]) = C
    THEN R
    ELSE [bi \in 0..(b - 1) |-> [i \in 0..(B - 1) |-> [c \in 0..(C - 1) |-> Rat(1, C)]]]

InitR(b, B, C) ==
  [bi \in 0..(b - 1) |-> [i \in 0..(B - 1) |-> [c \in 0..(C - 1) |-> Rat(1, C)]]]

\* line 222: self._lambda[0] + (self._lambda[1] - self._lambda[0]) * r
LambdaByIteration(lam, rr) == lam[0] + Mul(lam[1] - lam[0], rr) * (iter_ + 1)

LambdaArg(lam, rr) == lam[0] + Mul(lam[1] - lam[0], rr)

\* line 223: if iter_ < self.iters - 1
AlwaysEStep(it, iters) == it < iters

EStepFollows(it, iters) == it < iters - 1

\* ------------------------------------------------------------------- Spec
MaxIn == 2
MaxIters == 3
MaxLambda == 100

\* activations in [0, 1]; seed 0 is the all-zero tensor
ActPattern(seed, n) == (Scale * ((seed * (n + 1)) % 3)) \div 2

\* an input grid (1, 1, 1, B*(psize+1)) with psize = 1: B poses, then B activations
RoutingGridOf(seed, B) ==
  [bi \in {0} |-> [row \in {0} |-> [col \in {0} |-> [ch \in 0..(2 * B - 1) |->
     IF ch < B THEN Scale * Pattern(seed, ch) ELSE ActPattern(seed, ch - B)]]]]

\* no call has returned yet
NoCall == [gx |-> <<>>, r |-> 0, out |-> <<>>]

NoArgs == [div |-> {}, sqrt |-> {}, log |-> {}, log_a |-> {}]

Params == [weights |-> weights, beta_u |-> beta_u, beta_a |-> beta_a, _lambda |-> _lambda]

\* __init__, lines 67-96: beta_u and beta_a are ones
Init ==
  /\ self \in [B : {MaxIn}, C : 1..MaxOut, P : {1}, K : {1}, stride : {1},
               iters : 1..MaxIters, coor_add : {FALSE}, w_shared : {TRUE}]
  /\ weights = WeightsOf(1, self.K * self.K * self.B, self.C, self.P)
  /\ beta_u = [c \in 0..(self.C - 1) |-> Scale]
  /\ beta_a = [c \in 0..(self.C - 1) |-> Scale]
  /\ \E high \in {1, MaxLambda} : _lambda = [i \in 0..1 |-> IF i = 0 THEN Scale ELSE high * Scale]
  /\ built = [weights |-> weights, beta_u |-> beta_u, beta_a |-> beta_a, _lambda |-> _lambda]
  /\ at = "idle"
  /\ gx = <<>> /\ p_in = <<>> /\ a_in = <<>> /\ v = <<>>
  /\ r = 0 /\ R = <<>> /\ iter_ = 0
  /\ a_out = <<>> /\ mu = <<>> /\ sigma_sq = <<>> /\ out = <<>>
  /\ steps = <<>> /\ lams = <<>> /\ args = NoArgs
  /\ prev = NoCall
  /\ cfg = 0 /\ pc = "off" /\ xs = 0 /\ x = 0 /\ idxs = 0 /\ oh = 0 /\ outcome = 0

\* forward(x, r), lines 305-314 and 321, and caps_em_routing up to its loop,
\* lines 213-218
RCall ==
  /\ at = "idle"
  /\ \E seed \in 0..MaxSeed, rr \in {0, Scale} :
       LET psize == psizeOf(self.P)
           c == self.B * (psize + 1)
           g == RoutingGridOf(seed, self.B)
           p == ViewPoses(g, 1, 1, self.B, psize)
           a == ViewActs(g, 1, 1, self.B, psize)
           vv == TransformView(p, weights, self.C, self.P, self.w_shared)
       IN  /\ SharedAssert(c, self)
           /\ Size(vv[0][0]) = self.C
           /\ Size(a) = Size(vv) /\ Size(a[0]) = Size(vv[0])
           /\ gx' = g
           /\ r' = rr
           /\ p_in' = p
           /\ a_in' = a
           /\ v' = vv
           /\ R' = InitR(Size(vv), Size(vv[0]), self.C)
  /\ iter_' = 0
  /\ a_out' = <<>> /\ mu' = <<>> /\ sigma_sq' = <<>> /\ out' = <<>>
  /\ steps' = <<>> /\ lams' = <<>> /\ args' = NoArgs
  /\ at' = "mmstep"
  /\ UNCHANGED <<self, weights, beta_u, beta_a, _lambda, built, prev, fvars>>

\* lines 222-223: the M-step of iteration iter_, and the loop's next position
RMStep ==
  /\ at = "mmstep"
  /\ LET lam == LambdaArg(_lambda, r)
         m == mmstep(a_in, R, v, lam, beta_a, beta_u)
         ma == MArgs(a_in, R, v, lam, beta_a, beta_u)
     IN  /\ a_out' = m.a_j
         /\ mu' = m.mu
         /\ sigma_sq' = m.sigma_sq
         /\ lams' = Append(lams, lam)
         /\ args' = [div |-> ma.div, sqrt |-> ma.sqrt, log |-> ma.log, log_a |-> {}]
  /\ steps' = Append(steps, [op |-> "M", R |-> R])
  /\ IF EStepFollows(iter_, self.iters)
       THEN at' = "e_step" /\ iter_' = iter_
       ELSE /\ iter_' = iter_ + 1
            /\ at' = IF iter_ + 1 < self.iters THEN "mmstep" ELSE "return"
  /\ UNCHANGED <<self, weights, gx, p_in, a_in, v, beta_u, beta_a, _lambda, r, R, out,
                 built, prev, fvars>>

\* line 224: the E-step of iteration iter_, then the next iteration
REStep ==
  /\ at = "e_step"
  /\ LET Rn == e_step(mu, sigma_sq, a_out, v)
         ea == EArgs(sigma_sq, a_out, v)
     IN  /\ R' = Rn
         /\ steps' = Append(steps, [op |-> "E", R |-> Rn])
         /\ args' = ea
  /\ iter_' = iter_ + 1
  /\ at' = IF iter_ + 1 < self.iters THEN "mmstep" ELSE "return"
  /\ UNCHANGED <<self, weights, gx, p_in, a_in, v, beta_u, beta_a, _lambda, r, a_out, mu,
                 sigma_sq, out, lams, built, prev, fvars>>

\* line 226 and forward's lines 321-323: _, out = (mu, a_out); return out
RReturn ==
  /\ at = "return"
  /\ out' = a_out
  /\ at' = "returned"
  /\ UNCHANGED <<self, weights, gx, p_in, a_in, v, beta_u, beta_a, _lambda, r, R, iter_,
                 a_out, mu, sigma_sq, steps, lams, args, built, prev, fvars>>

\* the caller has the output; the call's locals are gone.  The memory that
\* held R keeps its content, so that a call that did not start from a fresh
\* R would show.
RFinish ==
  /\ at = "returned"
  /\ prev' = [gx |-> gx, r |-> r, out |-> out]
  /\ at' = "idle"
  /\ gx' = <<>> /\ p_in' = <<>> /\ a_in' = <<>> /\ v' = <<>>
  /\ r' = 0 /\ iter_' = 0
  /\ a_out' = <<>> /\ mu' = <<>> /\ sigma_sq' = <<>> /\ out' = <<>>
  /\ steps' = <<>> /\ lams' = <<>> /\ args' = NoArgs
  /\ UNCHANGED <<self, weights, beta_u, beta_a, _lambda, R, built, fvars>>

Next ==
  \/ RCall
  \/ RMStep
  \/ REStep
  \/ RReturn
  \/ RFinish

Spec == Init /\ [][Next]_vars

\* ---------------------------------------------------------- claims on Spec
InRouting == at \in {"mmstep", "e_step", "return", "returned"}

RECURSIVE RatSumTo(_, _)
RatSumTo(row, n) == IF n = 0 THEN Rat(0, 1) ELSE RatAdd(row[n - 1], RatSumTo(row, n - 1))

IsDistribution(row) ==
  /\ \A c \in DOMAIN row : row[c][2] > 0 /\ row[c][1] >= 0
  /\ RatSumTo(row, Size(row)) = <<1, 1>>

Uniform(b, B, C) == [bi \in 0..(b - 1) |-> [i \in 0..(B - 1) |-> [c \in 0..(C - 1) |-> <<1, C>>]]]

NoNaNIn(RR) ==
  \A bi \in DOMAIN RR : \A i \in DOMAIN RR[bi] : \A c \in DOMAIN RR[bi][i] : RR[bi][i][c][2] # 0

\* C5: in every state of a routing call the coefficients R are a probability
\* distribution over the output types: for every sample and input capsule the
\* C entries are non-negative and sum to 1; the initial R has every entry 1/C.
C5_Distribution ==
  InRouting =>
    /\ \A bi \in DOMAIN R : \A i \in DOMAIN R[bi] : IsDistribution(R[bi][i])
    /\ steps = <<>> => R = Uniform(Size(v), Size(v[0]), self.C)

\* what the code does keep: R is a distribution as long as no M-step has
\* returned an activation vector that is exactly zero for every output type
R_DistributionWhileActive ==
  InRouting /\ (\A k \in 1..Len(steps) : steps[k].op = "E" => NoNaNIn(steps[k].R))
    => \A bi \in DOMAIN R : \A i \in DOMAIN R[bi] : IsDistribution(R[bi][i])

R_NaNOnlyFromZeroActivation ==
  at = "mmstep" /\ Len(steps) = 2 /\ ~NoNaNIn(R)
    => \E bi \in DOMAIN a_out : \A c \in DOMAIN a_out[bi] : a_out[bi][c] = 0

\* C10: in every M-step and E-step every divisor and every argument of log
\* or sqrt is at least epsilon, the log of the output activation included.
C10_EpsGuards ==
  InRouting => \A y \in args.div \cup args.sqrt \cup args.log \cup args.log_a : y >= eps

\* the places where the code does add epsilon, or works on a value that had
\* it added: all but the log of the output activation
EpsGuardsOfCode ==
  InRouting /\ NoNaNIn(R) /\ (\A k \in 1..Len(steps) : NoNaNIn(steps[k].R))
    => \A y \in args.div \cup args.sqrt \cup args.log : y >= eps

\* C6: a routing call with n iterations runs M, E, M, ..., M: the first step
\* is an M-step on the uniform R, every M-step but the last is followed by an
\* E-step whose R the next M-step uses, the call returns after 2n - 1 steps
\* with the last step an M-step, and the returned mu and a_out are the
\* outputs of that last M-step.
C6_Alternation ==
  /\ Len(steps) <= 2 * self.iters - 1
  /\ \A k \in 1..Len(steps) : steps[k].op = IF k % 2 = 1 THEN "M" ELSE "E"
  /\ \A k \in 2..Len(steps) : k % 2 = 1 => steps[k].R = steps[k - 1].R
  /\ Len(steps) >= 1 => steps[1].R = Uniform(Size(v), Size(v[0]), self.C)
  /\ at \in {"return", "returned"} =>
       /\ Len(steps) = 2 * self.iters - 1
       /\ LET last == mmstep(a_in, steps[Len(steps)].R, v, lams[Len(lams)], beta_a, beta_u)
          IN  mu = last.mu /\ a_out = last.a_j
  /\ at = "returned" => out = a_out

C6_Witness ==
  /\ at = "returned"
  /\ self.iters = 3
  /\ Len(steps) = 5
  /\ NoNaNIn(steps[4].R)
  /\ steps[2].R # steps[1].R
  /\ steps[4].R # steps[2].R

\* C7: the inverse temperature escalates across the iterations of one call:
\* with low < high it grows from each M-step to the next, following the state
\* of R, and is not one fixed value for the whole call.
C7_LambdaEscalates ==
  _lambda[0] < _lambda[1] => \A k \in 1..(Len(lams) - 1) : lams[k] < lams[k + 1]

\* C7 amended: every M-step of a call is handed the same inverse temperature
\* low + (high - low) * r, where r is the scalar argument of forward; it
\* depends neither on the routing coefficients R nor on the iteration.
C7_LambdaFixed ==
  \A k \in 1..Len(lams) : lams[k] = _lambda[0] + ((_lambda[1] - _lambda[0]) * r) \div Scale

C7_Witness ==
  /\ at = "returned"
  /\ _lambda[0] < _lambda[1]
  /\ r > 0
  /\ Len(lams) = 3
  /\ lams[3] = lams[1]
  /\ NoNaNIn(steps[4].R)
  /\ steps[4].R # steps[2].R

\* C8: a forward call leaves weights, beta_u, beta_a and the lambda pair as
\* __init__ built them and starts its routing from R = 1/C whatever an earlier
\* call left behind; every later R, and the value returned, is computed from
\* the input grid, r and those parameters alone, so the call returns what the
\* previous call returned for the same grid and r.
C8_Stateless ==
  LET a == ViewActs(gx, 1, 1, self.B, psizeOf(self.P))
      V == TransformView(ViewPoses(gx, 1, 1, self.B, psizeOf(self.P)),
                         built.weights, self.C, self.P, self.w_shared)
      lam == built._lambda[0] + ((built._lambda[1] - built._lambda[0]) * r) \div Scale
      M(RR) == mmstep(a, RR, V, lam, built.beta_a, built.beta_u)
      E(RR) == e_step(M(RR).mu, M(RR).sigma_sq, M(RR).a_j, V)
  IN  /\ Params = built
      /\ at = "mmstep" /\ steps = <<>> => R = Uniform(Size(V), Size(V[0]), self.C)
      /\ Len(steps) >= 1 => steps[1].R = Uniform(Size(V), Size(V[0]), self.C)
      /\ \A k \in 2..Len(steps) :
           steps[k].R = IF steps[k].op = "E" THEN E(steps[k - 1].R) ELSE steps[k - 1].R
      /\ at = "returned" =>
           /\ steps[Len(steps)].op = "M"
           /\ out = M(steps[Len(steps)].R).a_j
           /\ prev.gx = gx /\ prev.r = r => prev.out = out

C8_Witness ==
  /\ at = "returned"
  /\ DOMAIN prev.gx # {}
  /\ prev.gx = gx /\ prev.r = r
  /\ self.C > 1 /\ self.iters > 1
  /\ NoNaNIn(R)
  /\ R # Uniform(Size(v), Size(v[0]), self.C)

====
